---- MODULE Spec2Model ----
(***************************************************************************)
(* Post-extraction validation engine of the blood-exam application          *)
(* (core/validation.py) over the ORM tables it reads and writes             *)
(* (core/models.py), and the requests that run it (process_exam of          *)
(* core/ai_service.py, the upload and reprocess views of core/views.py).    *)
(*                                                                          *)
(* Numbers.  A measurement value is a Decimal with four decimal places; the *)
(* model keeps values as integers counting TENTHS (29 is 2.9, 80000 is      *)
(* 8000): the tenth is the last digit the model's column keeps, as the      *)
(* fourth decimal is the last digit the code's column keeps, and a value as *)
(* extracted carries one digit more (HUNDREDTHS).  The code converts to     *)
(* float for its ratios; on the value sets of this model every one of those *)
(* double-precision results compares with its threshold exactly as the      *)
(* rational result does, so the ratios are written cross-multiplied over    *)
(* the integers.  round() is Python's (nearest integer, ties to even).      *)
(***************************************************************************)
EXTENDS Integers, Sequences, FiniteSets, Bags, TLC

VARIABLES
    catalog,    \* Biomarker table: the codes that have a definition
    exams,      \* Exam table: id -> [user, exam_date, status]
    results,    \* ExamResult table: rows [id, exam, code, value]
    nextId,     \* next primary key of ExamResult
    stored,     \* ExamValidation table: exam id -> rows [flag, resolved]
    call,       \* the caller's frame: the exam validated and its flag list
    hist,       \* history: what validate_exam returned last and before, whether the
                \* tables changed since it returned, the rows before the calls
    derived,    \* ExamResult table: row id -> [ref_min, ref_max, is_abnormal]
    run         \* process_exam invocations: exam id -> frame of the request

vars == <<catalog, exams, results, nextId, stored, call, hist, derived, run>>

-----------------------------------------------------------------------------
(* Bounds of the model *)

NumExams == 3

\* How often apply_auto_corrections is called on one flag list.
MaxApply == 2

\* The number of exams of the tables in which the duplicate query's cut is
\* reached: the exam processed and eleven others.
WindowExams == 12

\* The number of exams uploaded in a behaviour of the requests.
MaxUploads == 2

\* The number of process_exam invocations in a behaviour of the requests: the
\* uploads' and the reprocess requests'.
MaxRuns == 3

-----------------------------------------------------------------------------
(* Thresholds of validation.py *)

LIPID_TOLERANCE_PCT == 15
WBC_SUM_TOLERANCE_PCT == 10
WBC_FLOOR == 1000
PCT_VALUE_CEIL == 100
PCT_SUM_LOW == 50
PCT_SUM_HIGH == 110
DUP_WINDOW == 10
DUP_MIN_COMMON == 5
DUP_MATCH_PCT == 80
HIST_CHANGE_PCT == 200
WBC_SUM_MIN_COMPONENTS == 3
PCT_MIN_COMPONENTS == 2
BASO_NEEDED_COMPONENTS == 4

-----------------------------------------------------------------------------
(* Values in tenths *)

Units(n) == n * 10

Abs(x) == IF x < 0 THEN -x ELSE x

Max(a, b) == IF a >= b THEN a ELSE b

Min(a, b) == IF a <= b THEN a ELSE b

\* int(n/d) in place of round(n/d).
PyRoundFloor(n, d) == n \div d

\* Python round(n/d) for d > 0: nearest integer, a tie goes to the even one.
PyRound(n, d) ==
    LET q == n \div d
        r == n % d
    IN  IF 2 * r < d THEN q
        ELSE IF 2 * r > d THEN q + 1
        ELSE IF q % 2 = 0 THEN q ELSE q + 1

RECURSIVE SumSeq(_)
SumSeq(s) == IF s = <<>> THEN 0 ELSE Head(s) + SumSeq(Tail(s))

RECURSIVE SeqToBag(_)
SeqToBag(s) == IF s = <<>> THEN EmptyBag ELSE SetToBag({Head(s)}) (+) SeqToBag(Tail(s))

-----------------------------------------------------------------------------
(* Reference data *)

\* The codes of the model.  APOB stands for a catalog entry added through the
\* admin site: it has no row in PHYSIOLOGICAL_LIMITS.
Codes == {"HGB", "WBC", "NEUT", "LYMPH", "MONO", "EOS", "BASO",
          "CT", "HDL", "LDL", "VLDL", "CREA", "CORT", "APOB"}

\* ExamResult.Meta.ordering: biomarker category, then biomarker name.
CodeSeq == <<"CREA", "BASO", "EOS", "HGB", "WBC", "LYMPH", "MONO", "NEUT",
             "CORT", "APOB", "CT", "HDL", "LDL", "VLDL">>

\* PHYSIOLOGICAL_LIMITS, the rows of the model's codes, in tenths.
PHYSIOLOGICAL_LIMITS ==
    [c \in Codes \ {"APOB"} |->
        CASE c = "HGB"   -> <<30, 250>>
          [] c = "WBC"   -> <<5000, 1000000>>
          [] c = "NEUT"  -> <<1000, 500000>>
          [] c = "LYMPH" -> <<1000, 300000>>
          [] c = "MONO"  -> <<100, 50000>>
          [] c = "EOS"   -> <<0, 100000>>
          [] c = "BASO"  -> <<0, 30000>>
          [] c = "CT"    -> <<500, 5000>>
          [] c = "HDL"   -> <<50, 1500>>
          [] c = "LDL"   -> <<100, 4000>>
          [] c = "VLDL"  -> <<10, 1000>>
          [] c = "CREA"  -> <<1, 150>>
          [] c = "CORT"  -> <<5, 500>>]

VOLATILE_CODES == {"INS", "CORT", "PRL", "HGH", "VHS", "PCR", "BASO", "EOS"}

ExamIds == 1..NumExams

-----------------------------------------------------------------------------
(* ValidationFlag *)

None == {}

Some(x) == {x}

Flag(rid, code, sev, cat, orig, corr, ref) ==
    [rid |-> rid, code |-> code, severity |-> sev, category |-> cat,
     original_value |-> orig, corrected_value |-> corr, ref |-> ref]

\* What a flag says, without the row it points to.
FlagKey(f) ==
    [code |-> f.code, severity |-> f.severity, category |-> f.category,
     original_value |-> f.original_value, corrected_value |-> f.corrected_value]

RECURSIVE FlagKeys(_)
FlagKeys(s) == IF s = <<>> THEN <<>> ELSE <<FlagKey(Head(s))>> \o FlagKeys(Tail(s))

-----------------------------------------------------------------------------
(* results_by_code: the rows of one exam, keyed by biomarker code *)

ResultsByCode(rs, e) == {r \in rs : r.exam = e}

HasCode(rbc, c) == \E r \in rbc : r.code = c

Row(rbc, c) == CHOOSE r \in rbc : r.code = c

\* The codes of cs that the panel holds, in the order of cs.
Present(rbc, cs) == SelectSeq(cs, LAMBDA c : HasCode(rbc, c))

ValuesOf(rbc, cs) == [i \in 1..Len(cs) |-> Row(rbc, cs[i]).value]

-----------------------------------------------------------------------------
(* Rule A: physiological range checks *)

\* The minimum itself counted as outside.
OutsideLimitsStrictMin(c, val) ==
    val <= PHYSIOLOGICAL_LIMITS[c][1] \/ val > PHYSIOLOGICAL_LIMITS[c][2]

\* val < abs_min or val > abs_max
OutsideLimits(c, val) ==
    val < PHYSIOLOGICAL_LIMITS[c][1] \/ val > PHYSIOLOGICAL_LIMITS[c][2]

CheckPhysiologicalRanges(rbc) ==
    LET hit == SelectSeq(CodeSeq, LAMBDA c :
                   /\ HasCode(rbc, c)
                   /\ c \in DOMAIN PHYSIOLOGICAL_LIMITS
                   /\ OutsideLimits(c, Row(rbc, c).value))
    IN  [i \in 1..Len(hit) |->
            Flag(Some(Row(rbc, hit[i]).id), hit[i], "error", "physiological",
                 Some(Row(rbc, hit[i]).value), None, 0)]

-----------------------------------------------------------------------------
(* Rule B: cross-biomarker formula checks *)

\* >= 15 in place of > 15.
LipidDeviatesInclusive(actual, expected) ==
    Abs(actual - expected) * 100 >= LIPID_TOLERANCE_PCT * expected

\* abs(actual - expected) / expected * 100 > 15, for expected > 0
LipidDeviates(actual, expected) ==
    Abs(actual - expected) * 100 > LIPID_TOLERANCE_PCT * expected

CheckLipidFormula(rbc) ==
    IF ~(HasCode(rbc, "CT") /\ HasCode(rbc, "HDL")
            /\ HasCode(rbc, "LDL") /\ HasCode(rbc, "VLDL"))
    THEN <<>>
    ELSE LET expected == Row(rbc, "HDL").value + Row(rbc, "LDL").value
                            + Row(rbc, "VLDL").value
             actual   == Row(rbc, "CT").value
         IN  IF expected <= 0 THEN <<>>
             ELSE IF LipidDeviates(actual, expected)
                  THEN <<Flag(Some(Row(rbc, "CT").id), "CT", "warning",
                              "cross_biomarker", None, None, 0)>>
                  ELSE <<>>

WbcComponents == <<"NEUT", "LYMPH", "MONO", "EOS", "BASO">>

\* Only a sum above WBC counts.
WbcSumDeviatesAbove(wbc_val, component_sum) ==
    (component_sum - wbc_val) * 100 > WBC_SUM_TOLERANCE_PCT * wbc_val

\* >= 10 in place of > 10.
WbcSumDeviatesInclusive(wbc_val, component_sum) ==
    Abs(wbc_val - component_sum) * 100 >= WBC_SUM_TOLERANCE_PCT * wbc_val

\* abs(wbc_val - component_sum) / wbc_val * 100 > 10, for wbc_val > 0
WbcSumDeviates(wbc_val, component_sum) ==
    Abs(wbc_val - component_sum) * 100 > WBC_SUM_TOLERANCE_PCT * wbc_val

CheckWbcSum(rbc) ==
    LET available == Present(rbc, WbcComponents)
    IN  IF ~HasCode(rbc, "WBC") \/ Len(available) < WBC_SUM_MIN_COMPONENTS
        THEN <<>>
        ELSE LET component_sum == SumSeq(ValuesOf(rbc, available))
                 wbc_val       == Row(rbc, "WBC").value
             IN  IF wbc_val <= 0 THEN <<>>
                 ELSE IF WbcSumDeviates(wbc_val, component_sum)
                      THEN <<Flag(Some(Row(rbc, "WBC").id), "WBC", "warning",
                                  "cross_biomarker", None, None, 0)>>
                      ELSE <<>>

-----------------------------------------------------------------------------
(* Rule C: WBC differential percentage detection *)

\* The differential with BASO counted in.
DiffCodesWithBaso == <<"NEUT", "LYMPH", "MONO", "EOS", "BASO">>

DiffCodes == <<"NEUT", "LYMPH", "MONO", "EOS">>

\* The count truncated in place of rounded.
AbsoluteFromPctTruncated(pct, wbc) ==
    Units(PyRoundFloor(pct * wbc, Units(Units(100))))

\* The percentage written back as it is.
AbsoluteFromPctUnscaled(pct, wbc) == pct

\* round(pct_val * wbc_val / 100), both operands in tenths; the count comes
\* back as a Decimal of whole units.
AbsoluteFromPct(pct, wbc) == Units(PyRound(pct * wbc, Units(Units(100))))

\* any(value < 100) in place of all(value < 100).
LooksLikePctAny(vals) ==
    /\ \E i \in 1..Len(vals) : vals[i] < Units(PCT_VALUE_CEIL)
    /\ Units(PCT_SUM_LOW) < SumSeq(vals)
    /\ SumSeq(vals) < Units(PCT_SUM_HIGH)

\* all(value < 100) and 50 < total < 110
LooksLikePct(vals) ==
    /\ \A i \in 1..Len(vals) : vals[i] < Units(PCT_VALUE_CEIL)
    /\ Units(PCT_SUM_LOW) < SumSeq(vals)
    /\ SumSeq(vals) < Units(PCT_SUM_HIGH)

CheckWbcPercentages(rbc) ==
    IF ~HasCode(rbc, "WBC") THEN <<>>
    ELSE IF Row(rbc, "WBC").value < Units(WBC_FLOOR) THEN <<>>
    ELSE LET wbc_val == Row(rbc, "WBC").value
             diff    == Present(rbc, DiffCodes)
         IN  IF Len(diff) < PCT_MIN_COMPONENTS THEN <<>>
             ELSE IF LooksLikePct(ValuesOf(rbc, diff))
                  THEN [i \in 1..Len(diff) |->
                           Flag(Some(Row(rbc, diff[i]).id), diff[i],
                                "auto_corrected", "wbc_percentage",
                                Some(Row(rbc, diff[i]).value),
                                Some(AbsoluteFromPct(Row(rbc, diff[i]).value, wbc_val)),
                                0)]
                  ELSE <<>>

-----------------------------------------------------------------------------
(* ExamResult.save: the derived fields of a row *)

\* UserProfile.gender of the two users.
Gender == (1 :> "M") @@ (2 :> "F")

\* Biomarker.ref_min_male, ref_max_male, ref_min_female, ref_max_female, in
\* tenths; the codes added to the catalog by hand carry no range.
CatalogRef ==
    [c \in Codes |->
        CASE c = "HGB"   -> <<Some(130), Some(175), Some(120), Some(155)>>
          [] c = "WBC"   -> <<Some(40000), Some(110000), Some(40000), Some(110000)>>
          [] c = "NEUT"  -> <<Some(18000), Some(70000), Some(18000), Some(70000)>>
          [] c = "LYMPH" -> <<Some(10000), Some(48000), Some(10000), Some(48000)>>
          [] c = "CT"    -> <<None, Some(1900), None, Some(1900)>>
          [] c = "HDL"   -> <<Some(400), None, Some(500), None>>
          [] c = "LDL"   -> <<None, Some(1300), None, Some(1300)>>
          [] c = "VLDL"  -> <<None, Some(300), None, Some(300)>>
          [] c = "CREA"  -> <<Some(7), Some(12), Some(5), Some(9)>>
          [] c = "CORT"  -> <<Some(62), Some(194), Some(62), Some(194)>>
          [] OTHER       -> <<None, None, None, None>>]

\* _get_standard_ref: the female range for gender 'F', the male range otherwise
StandardRef(c, gender) ==
    IF gender = "F" THEN <<CatalogRef[c][3], CatalogRef[c][4]>>
    ELSE <<CatalogRef[c][1], CatalogRef[c][2]>>

\* A value of the column (tenths) on the grid of the extracted values.
Fine(v) == v * 10

\* The column's rounding of a value handed to it (half to even).
Quantize(raw) == PyRound(raw, 10)

\* save(): ref_min, ref_max from the catalog, is_abnormal from the value the
\* instance holds (raw, in hundredths) when save() runs.
Derive(c, gender, raw) ==
    LET ref == StandardRef(c, gender)
    IN  [ref_min |-> ref[1], ref_max |-> ref[2],
         is_abnormal |-> \/ \E m \in ref[1] : raw < Fine(m)
                         \/ \E m \in ref[2] : raw > Fine(m)]

-----------------------------------------------------------------------------
(* Rule D: duplicate exam detection *)

\* The query without its user filter.
PreviousCompletedOfAnyone(ex, e) ==
    {p \in DOMAIN ex : p # e /\ ex[p].status = "completed"}

\* Exam.objects.filter(user=exam.user, status='completed').exclude(id=exam.id)
PreviousCompleted(ex, e) ==
    {p \in DOMAIN ex : /\ p # e
                       /\ ex[p].user = ex[e].user
                       /\ ex[p].status = "completed"}

\* .order_by('-exam_date'): the orders the database may return the rows in.
\* Rows with the same exam_date come in any order.
RECURSIVE DateOrders(_, _)
DateOrders(ex, S) ==
    IF S = {} THEN {<<>>}
    ELSE UNION {{<<p>> \o o : o \in DateOrders(ex, S \ {p})} :
                p \in {x \in S : \A y \in S : ex[x].exam_date >= ex[y].exam_date}}

\* The query without its [:10].
WindowUncut(o) == o

\* [:10]
Window(o) == SubSeq(o, 1, Min(Len(o), DUP_WINDOW))

CommonCodes(rbc, prev) == {c \in Codes : HasCode(rbc, c) /\ HasCode(prev, c)}

ExactMatches(rbc, prev) ==
    Cardinality({c \in CommonCodes(rbc, prev) : Row(rbc, c).value = Row(prev, c).value})

\* >= 80 in place of > 80.
IsDuplicateInclusive(rbc, prev) ==
    /\ Cardinality(CommonCodes(rbc, prev)) >= DUP_MIN_COMMON
    /\ ExactMatches(rbc, prev) * 100 >= DUP_MATCH_PCT * Cardinality(CommonCodes(rbc, prev))

\* exact_matches / len(common_codes) * 100 > 80
IsDuplicate(rbc, prev) ==
    /\ Cardinality(CommonCodes(rbc, prev)) >= DUP_MIN_COMMON
    /\ ExactMatches(rbc, prev) * 100 > DUP_MATCH_PCT * Cardinality(CommonCodes(rbc, prev))

CheckDuplicateExam(rs, e, order) ==
    LET rbc == ResultsByCode(rs, e)
        hit == SelectSeq(Window(order),
                         LAMBDA p : IsDuplicate(rbc, ResultsByCode(rs, p)))
    IN  [i \in 1..Len(hit) |->
            Flag(None, "EXAM", "warning", "duplicate_exam", None, None, hit[i])]

-----------------------------------------------------------------------------
(* Rule E: historical consistency *)

\* filter(user, status='completed', exam_date__lt=exam.exam_date).first() under
\* Exam.Meta.ordering = ['-exam_date', '-uploaded_at'].  Exam ids grow with
\* uploaded_at.  The result is a set: empty, or the one previous exam.
PreviousExam(ex, e) ==
    LET cand == {p \in DOMAIN ex : /\ ex[p].user = ex[e].user
                                   /\ ex[p].status = "completed"
                                   /\ ex[p].exam_date < ex[e].exam_date}
    IN  {p \in cand : \A q \in cand :
            \/ ex[q].exam_date < ex[p].exam_date
            \/ (ex[q].exam_date = ex[p].exam_date /\ q <= p)}

\* Every change counts.
ChangedTooMuchAny(curr_val, prev_val) == curr_val # prev_val

\* >= 200 in place of > 200.
ChangedTooMuchInclusive(curr_val, prev_val) ==
    IF prev_val > 0
    THEN Abs(curr_val - prev_val) * 100 >= HIST_CHANGE_PCT * prev_val
    ELSE Abs(curr_val - prev_val) * 100 < HIST_CHANGE_PCT * prev_val

\* abs(curr_val - prev_val) / prev_val * 100 > 200, for prev_val # 0
ChangedTooMuch(curr_val, prev_val) ==
    IF prev_val > 0
    THEN Abs(curr_val - prev_val) * 100 > HIST_CHANGE_PCT * prev_val
    ELSE Abs(curr_val - prev_val) * 100 < HIST_CHANGE_PCT * prev_val

CheckHistoricalConsistency(rs, ex, e) ==
    IF PreviousExam(ex, e) = {} THEN <<>>
    ELSE LET previous_exam == CHOOSE p \in PreviousExam(ex, e) : TRUE
             rbc  == ResultsByCode(rs, e)
             prev == ResultsByCode(rs, previous_exam)
             hit  == SelectSeq(CodeSeq, LAMBDA c :
                         /\ HasCode(rbc, c)
                         /\ c \notin VOLATILE_CODES
                         /\ HasCode(prev, c)
                         /\ Row(prev, c).value # 0
                         /\ ChangedTooMuch(Row(rbc, c).value, Row(prev, c).value))
         IN  [i \in 1..Len(hit) |->
                 Flag(Some(Row(rbc, hit[i]).id), hit[i], "warning", "historical",
                      None, None, previous_exam)]

-----------------------------------------------------------------------------
(* validate_exam: the flag list it returns *)

ValidateFlags(rs, ex, e, order) ==
    LET rbc == ResultsByCode(rs, e)
    IN  CheckPhysiologicalRanges(rbc)
            \o CheckLipidFormula(rbc)
            \o CheckWbcSum(rbc)
            \o CheckWbcPercentages(rbc)
            \o CheckDuplicateExam(rs, e, order)
            \o CheckHistoricalConsistency(rs, ex, e)

-----------------------------------------------------------------------------
(* ExamResult.save and the auto-corrections *)

\* The write keyed by biomarker code in place of the row id.
SaveValueByCode(rs, id, v) ==
    {IF \E t \in rs : t.id = id /\ t.code = r.code
     THEN [r EXCEPT !.value = v] ELSE r : r \in rs}

\* result = ExamResult.objects.get(id=id); result.value = v; result.save()
SaveValue(rs, id, v) ==
    {IF r.id = id THEN [r EXCEPT !.value = v] ELSE r : r \in rs}

\* Which flags apply_auto_corrections writes back.
IsCorrection(f) ==
    /\ f.severity = "auto_corrected"
    /\ f.corrected_value # None
    /\ f.rid # None

FlagValue(opt) == CHOOSE v \in opt : TRUE

\* The loop of apply_auto_corrections over the flag list, in order.
RECURSIVE ApplyFlags(_, _)
ApplyFlags(rs, fl) ==
    IF fl = <<>> THEN rs
    ELSE IF IsCorrection(Head(fl))
         THEN ApplyFlags(SaveValue(rs, FlagValue(Head(fl).rid),
                                   FlagValue(Head(fl).corrected_value)),
                         Tail(fl))
         ELSE ApplyFlags(rs, Tail(fl))

\* ExamResult.objects.get(id=...) raises DoesNotExist on a missing row.
AllCorrectionsResolve(rs, fl) ==
    \A i \in 1..Len(fl) :
        IsCorrection(fl[i]) => \E r \in rs : r.id = FlagValue(fl[i].rid)

\* The rows apply_auto_corrections saves: those its correction flags point to.
SavedIds(fl) ==
    {id \in {r.id : r \in results} :
        \E i \in 1..Len(fl) : IsCorrection(fl[i]) /\ fl[i].rid = Some(id)}

\* The derived fields once the rows ids of rs have gone through save() with
\* the values they hold in rs.
DeriveRows(d, rs, ex, ids) ==
    [id \in {r.id : r \in rs} |->
        IF id \in ids
        THEN LET r == CHOOSE x \in rs : x.id = id
             IN  Derive(r.code, Gender[ex[r.exam].user], Fine(r.value))
        ELSE d[id]]

\* _estimate_baso_if_missing: whether it goes on to insert a row.
\* The estimation without the test that BASO is missing.
BasoToEstimateAgain(rs, cat, e) ==
    LET rbc == ResultsByCode(rs, e)
    IN  /\ HasCode(rbc, "WBC")
        /\ Len(Present(rbc, DiffCodes)) >= BASO_NEEDED_COMPONENTS
        /\ "BASO" \in cat

BasoToEstimate(rs, cat, e) ==
    LET rbc == ResultsByCode(rs, e)
    IN  /\ ~HasCode(rbc, "BASO")
        /\ HasCode(rbc, "WBC")
        /\ Len(Present(rbc, DiffCodes)) >= BASO_NEEDED_COMPONENTS
        /\ "BASO" \in cat

\* The estimate without max(0, ...).
BasoEstimateUnclamped(rbc) ==
    Units(PyRound(Row(rbc, "WBC").value - SumSeq(ValuesOf(rbc, DiffCodes)),
                  Units(1)))

\* Decimal(str(round(max(0, wbc - component_sum))))
BasoEstimate(rbc) ==
    Units(PyRound(Max(0, Row(rbc, "WBC").value - SumSeq(ValuesOf(rbc, DiffCodes))),
                  Units(1)))

-----------------------------------------------------------------------------
(* The tables the checks start from *)

Opt(vals) == {None} \cup {Some(v) : v \in vals}

Entry(c, opt) == {[code |-> c, value |-> v] : v \in opt}

\* White-cell panels holding percentages: the 1000 floor, the 100 ceiling of a
\* value, the (50, 110) band of the sum.
PctPanels ==
    {Entry("WBC", w) \cup Entry("NEUT", n) \cup Entry("LYMPH", l)
        \cup Entry("MONO", m) \cup Entry("EOS", eo) \cup Entry("BASO", b) :
        w  \in Opt({9999, 10000, 10100, 80000}),
        n  \in Opt({200, 580, 1000, 46400}),
        l  \in Opt({300, 900}),
        m  \in Opt({80}),
        eo \in Opt({40, 50}),
        b  \in Opt({10})}

\* White-cell panels holding absolute counts: the 10 % band of the sum
\* identity, the missing BASO.
AbsPanels ==
    {Entry("WBC", w) \cup Entry("NEUT", n) \cup Entry("LYMPH", l)
        \cup Entry("MONO", m) \cup Entry("EOS", eo) \cup Entry("BASO", b) :
        w  \in Opt({0, 9999, 80000}),
        n  \in Opt({46400}),
        l  \in Opt({24000}),
        m  \in Opt({1599, 1600, 6400}),
        eo \in Opt({40, 3200}),
        b  \in Opt({500})}

\* Lipid panels around the 15 % band.
LipidPanels ==
    {Entry("CT", ct) \cup Entry("HDL", h) \cup Entry("LDL", l) \cup Entry("VLDL", v) :
        ct \in Opt({1445, 1900, 1955, 2000}),
        h  \in Opt({0, 500}),
        l  \in Opt({0, 1000}),
        v  \in Opt({0, 200})}

\* Values at and next to the physiological limits.
RangePanels ==
    {Entry("HGB", h) \cup Entry("CREA", cr) \cup Entry("CORT", co) \cup Entry("APOB", a) :
        h  \in Opt({29, 30, 250, 251}),
        cr \in Opt({9, 30}),
        co \in Opt({9, 30}),
        a  \in Opt({99990})}

FocusPanels == PctPanels \cup AbsPanels \cup LipidPanels \cup RangePanels

Counts == Entry("WBC", {80000}) \cup Entry("NEUT", {46400})
              \cup Entry("LYMPH", {24000}) \cup Entry("MONO", {6400})

\* The panel of an exam processed earlier: absolute counts, BASO estimated.
Earlier == Counts \cup Entry("EOS", {3200}) \cup Entry("BASO", {0})
               \cup Entry("CREA", {9}) \cup Entry("CORT", {9})

\* The panel of an exam as extracted: percentages, no BASO.
Extracted ==
    Entry("WBC", {80000}) \cup Entry("NEUT", {580}) \cup Entry("LYMPH", {300})
        \cup Entry("MONO", {80}) \cup Entry("EOS", {40}) \cup Entry("CREA", {30})

\* Panels of an exam that has other exams to be compared with.
HistPanels ==
    {Earlier,
     Counts \cup Entry("EOS", {3200}) \cup Entry("BASO", {0})
        \cup Entry("CREA", {30}) \cup Entry("CORT", {30}),
     Counts \cup Entry("EOS", {3200}) \cup Entry("CREA", {30}),
     Counts \cup Entry("CREA", {30}),
     Counts \cup Entry("CREA", {0}),
     Counts \cup Entry("CREA", {-20}),
     Counts,
     Extracted}

Dates == 1..3

OtherExams ==
    {[user |-> 1, exam_date |-> d, status |-> "completed", panel |-> Earlier] :
        d \in Dates}
    \cup {[user |-> 1, exam_date |-> 1, status |-> "error", panel |-> Extracted],
          [user |-> 1, exam_date |-> 1, status |-> "completed",
           panel |-> Entry("CREA", {0}) \cup Entry("HGB", {140})],
          [user |-> 1, exam_date |-> 1, status |-> "completed",
           panel |-> Entry("CREA", {10}) \cup Entry("HGB", {140})],
          [user |-> 1, exam_date |-> 1, status |-> "completed",
           panel |-> Entry("HGB", {140})],
          [user |-> 2, exam_date |-> 1, status |-> "completed", panel |-> Earlier]}

\* One exam alone in the tables, being processed.
PanelScenarios ==
    {[catalog |-> cat,
      exams |-> [e \in {1} |-> [user |-> 1, exam_date |-> 2,
                                status |-> "processing", panel |-> p]]] :
        cat \in {Codes, Codes \ {"BASO"}}, p \in FocusPanels}

\* An exam being processed among the other exams of the two users.
HistoryScenarios ==
    {[catalog |-> Codes,
      exams |-> [e \in ExamIds |->
                    IF e = 1 THEN [user |-> 1, exam_date |-> 2,
                                   status |-> "processing", panel |-> p]
                    ELSE others[e]]] :
        p \in HistPanels, others \in [ExamIds \ {1} -> OtherExams]}

\* What one of the other exams is to the exam processed: a completed exam of
\* the same user with the same panel; one left in error; one of another
\* user; one with another panel; one dated as exam 3, at the query's cut.
WindowKinds == {"same", "error", "other", "differs", "tied"}

\* The others that vary: the oldest, the second oldest and the most recent.
WindowVaried == {2, 3, WindowExams}

\* An exam dated in the middle of eleven others dated 2, 3, ..., all with its
\* panel unless varied.
WindowScenarios ==
    {[catalog |-> Codes,
      exams |-> [e \in 1..WindowExams |->
                    IF e = 1 THEN [user |-> 1, exam_date |-> 7,
                                   status |-> "processing", panel |-> Earlier]
                    ELSE LET k == IF e \in WindowVaried THEN kind[e] ELSE "same"
                         IN  [user |-> IF k = "other" THEN 2 ELSE 1,
                              exam_date |-> IF k = "tied" THEN 3 ELSE e,
                              status |-> IF k = "error" THEN "error" ELSE "completed",
                              panel |-> IF k = "differs" THEN Entry("HGB", {140})
                                        ELSE Earlier]]] :
        kind \in [WindowVaried -> WindowKinds]}

CodeIndex(c) == CHOOSE i \in 1..Len(CodeSeq) : CodeSeq[i] = c

RowsOf(ex) ==
    UNION {{[id |-> (e - 1) * Len(CodeSeq) + CodeIndex(x.code), exam |-> e,
             code |-> x.code, value |-> x.value] : x \in ex[e].panel} :
           e \in DOMAIN ex}

\* ExamValidation(exam=exam, ..., resolved=False) for each flag of the list
StoredRows(fl) == [i \in 1..Len(fl) |-> [flag |-> fl[i], resolved |-> FALSE]]

\* The flags an exam got when it was processed as the first exam of its user.
FirstRunFlags(rbc) ==
    CheckPhysiologicalRanges(rbc) \o CheckLipidFormula(rbc)
        \o CheckWbcSum(rbc) \o CheckWbcPercentages(rbc)

\* The frame of a process_exam invocation on one exam: where it is, what it
\* extracted, its validation_flags, what it returned, the step that raised,
\* and the number of invocations the exam has had.
Frame(pc, items, flags, ret, raisedAt, n) ==
    [pc |-> pc, items |-> items, flags |-> flags, ret |-> ret,
     raisedAt |-> raisedAt, n |-> n]

\* What an exam that is processed again still has stored: a flag of its
\* previous run that points to no measurement, marked resolved since.
Leftover ==
    <<[flag |-> Flag(None, "EXAM", "warning", "duplicate_exam", None, None, 2),
       resolved |-> TRUE]>>

NoCall == [exam |-> 0, flags |-> <<>>, applied |-> 0]

InitFrom(scenarios) ==
    /\ \E sc \in scenarios :
          /\ \A e \in DOMAIN sc.exams : \A x \in sc.exams[e].panel : x.code \in sc.catalog
          /\ catalog = sc.catalog
          /\ exams = [e \in DOMAIN sc.exams |->
                         [user |-> sc.exams[e].user,
                          exam_date |-> sc.exams[e].exam_date,
                          status |-> sc.exams[e].status,
                          error_message |-> IF sc.exams[e].status = "error"
                                            THEN "failed" ELSE ""]]
          /\ results = RowsOf(sc.exams)
          /\ derived = DeriveRows(<<>>, RowsOf(sc.exams), sc.exams,
                                  {r.id : r \in RowsOf(sc.exams)})
          /\ run = [e \in DOMAIN sc.exams |-> Frame("idle", <<>>, <<>>, "none", "", 0)]
          /\ stored = [e \in DOMAIN sc.exams |->
                          IF sc.exams[e].status = "completed"
                          THEN StoredRows(FirstRunFlags(
                                   ResultsByCode(RowsOf(sc.exams), e)))
                          ELSE IF sc.exams[e].status = "processing"
                          THEN Leftover ELSE <<>>]
    /\ nextId = Cardinality(DOMAIN exams) * Len(CodeSeq) + 1
    /\ call = NoCall
    /\ hist = [exam |-> 0, flags |-> <<>>, clean |-> FALSE, twice |-> FALSE,
               first |-> <<>>, pre |-> {}, preApply |-> {}, preFlags |-> <<>>]

-----------------------------------------------------------------------------
(* Operations *)

\* A validate_exam that writes the corrections it detects.
ValidateExamWriting(e) ==
    /\ e \in DOMAIN exams
    /\ exams[e].status = "processing"
    /\ \E order \in DateOrders(exams, PreviousCompleted(exams, e)) :
          \E fl \in {ValidateFlags(results, exams, e, order)} :
              /\ results' = ApplyFlags(results, fl)
              /\ derived' = DeriveRows(derived, results', exams, SavedIds(fl))
              /\ UNCHANGED <<catalog, exams, nextId, stored, run>>
              /\ call' = [exam |-> e, flags |-> fl, applied |-> 0]
              /\ hist' = [exam |-> e, flags |-> fl, clean |-> TRUE,
                          twice |-> (hist.exam = e /\ hist.clean),
                          first |-> IF hist.exam = e /\ hist.clean
                                   THEN hist.flags ELSE <<>>,
                          pre |-> results,
                          preApply |-> {}, preFlags |-> <<>>]

\* validation_flags = validate_exam(exam), called by process_exam on the exam
\* it has put in status 'processing'
ValidateExam(e) ==
    /\ e \in DOMAIN exams
    /\ exams[e].status = "processing"
    /\ \E order \in DateOrders(exams, PreviousCompleted(exams, e)) :
          \E fl \in {ValidateFlags(results, exams, e, order)} :
              /\ UNCHANGED <<catalog, exams, results, nextId, stored, derived, run>>
              /\ call' = [exam |-> e, flags |-> fl, applied |-> 0]
              /\ hist' = [exam |-> e, flags |-> fl, clean |-> TRUE,
                          twice |-> (hist.exam = e /\ hist.clean),
                          first |-> IF hist.exam = e /\ hist.clean
                                   THEN hist.flags ELSE <<>>,
                          pre |-> results,
                          preApply |-> {}, preFlags |-> <<>>]

BasoFlag(id, v) == Flag(Some(id), "BASO", "info", "cross_biomarker", None, Some(v), 0)

\* apply_auto_corrections(exam, flags) on the caller's flag list
ApplyAutoCorrections ==
    /\ call.exam # 0
    /\ call.applied < MaxApply
    /\ AllCorrectionsResolve(results, call.flags)
    /\ \E rs1 \in {ApplyFlags(results, call.flags)} :
       LET e   == call.exam
           est == BasoToEstimate(rs1, catalog, e)
           v   == BasoEstimate(ResultsByCode(rs1, e))
       IN  /\ results' = IF est
                         THEN rs1 \cup {[id |-> nextId, exam |-> e,
                                         code |-> "BASO", value |-> v]}
                         ELSE rs1
           /\ nextId' = IF est THEN nextId + 1 ELSE nextId
           /\ call' = [call EXCEPT
                         !.flags = IF est THEN Append(@, BasoFlag(nextId, v)) ELSE @,
                         !.applied = @ + 1]
           /\ derived' = DeriveRows(derived, results', exams,
                                    SavedIds(call.flags)
                                        \cup (IF est THEN {nextId} ELSE {}))
    /\ hist' = [hist EXCEPT !.preApply = results, !.preFlags = call.flags,
                            !.clean = @ /\ results' = results]
    /\ UNCHANGED <<catalog, exams, stored, run>>

\* A save_validation_flags that keeps the rows the exam has.
SaveValidationFlagsAppending ==
    /\ call.exam # 0
    /\ call.applied > 0
    /\ stored' = [stored EXCEPT ![call.exam] = @ \o StoredRows(call.flags)]
    /\ UNCHANGED <<catalog, exams, results, nextId, call, hist, derived, run>>

\* save_validation_flags(exam, flags): delete the exam's rows, bulk_create the list
SaveValidationFlags ==
    /\ call.exam # 0
    /\ call.applied > 0
    /\ stored' = [stored EXCEPT ![call.exam] = StoredRows(call.flags)]
    /\ UNCHANGED <<catalog, exams, results, nextId, call, hist, derived, run>>

Next ==
    \/ \E e \in ExamIds : ValidateExam(e)
    \/ ApplyAutoCorrections
    \/ SaveValidationFlags

\* Every kind of panel, one exam in the tables.
SpecPanel == InitFrom(PanelScenarios) /\ [][Next]_vars

\* An exam with a history of other exams.
SpecHistory == InitFrom(HistoryScenarios) /\ [][Next]_vars

\* An exam with more completed exams of its user than the duplicate query
\* returns.
SpecWindow == InitFrom(WindowScenarios) /\ [][Next]_vars

-----------------------------------------------------------------------------
(* The requests: upload_view, exam_reprocess_view and the process_exam they *)
(* call, one step per call process_exam makes.  Requests on different exams *)
(* interleave; one exam has one request at a time.                          *)

\* An extracted item: a biomarker code and a number, in hundredths.
Item(c, raw) == [code |-> c, kind |-> "number", value |-> raw]

\* An item whose 'value' is no number for Decimal(str(...)): 'N/A', null.
Unparsed(c) == [code |-> c, kind |-> "text", value |-> 0]

\* An item that has no 'value' key.
NoValue(c) == [code |-> c, kind |-> "absent", value |-> 0]

\* An item whose 'value' is NaN, which Decimal(str(...)) accepts.  The lists
\* report it only for a biomarker that has a reference limit.
NotANumber(c) == [code |-> c, kind |-> "nan", value |-> 0]

\* What extract_biomarkers_from_file returns: a panel of percentages without
\* BASO; CREA reported twice, the second value with one digit more than the
\* column keeps, among an item no biomarker matches and an item whose value
\* is text; nothing; a list with an item that lacks its value; a list with
\* a value that is NaN.
ExtractedLists ==
    {<<Item("WBC", 800000), Item("NEUT", 5800), Item("LYMPH", 3000),
       Item("MONO", 800), Item("EOS", 400), Item("CREA", 400)>>,
     <<Item("CREA", 300), Item("XYZ", 100), Unparsed("HGB"), Item("CREA", 124)>>,
     <<>>,
     <<Item("HGB", 1400), NoValue("CREA"), Item("CT", 18000)>>,
     <<NotANumber("HGB"), Item("CREA", 300)>>}

\* The code is in the catalog; the raw name of an item whose code is not
\* matches no biomarker (match_biomarker_safe returns None).
Matched(it) == it.code \in catalog

\* A loop that calls create() for every item.
RECURSIVE SaveItemsCreating(_, _, _, _, _)
SaveItemsCreating(t, e, gender, items, k) ==
    IF k > Len(items) \/ t.raised THEN t
    ELSE IF ~Matched(items[k]) \/ items[k].kind = "text"
         THEN SaveItemsCreating(t, e, gender, items, k + 1)
    ELSE IF items[k].kind \in {"absent", "nan"}
         THEN [t EXCEPT !.raised = TRUE]
    ELSE SaveItemsCreating(
             [rs  |-> t.rs \cup {[id |-> t.nid, exam |-> e, code |-> items[k].code,
                                  value |-> Quantize(items[k].value)]},
              d   |-> (t.nid :> Derive(items[k].code, gender, items[k].value)) @@ t.d,
              nid |-> t.nid + 1,
              raised |-> FALSE],
             e, gender, items, k + 1)

\* The loop over the extracted items: [rs, d, nid] are the rows, their
\* derived fields and the next primary key, raised says that the loop ended
\* by an exception.  An item no biomarker matches is set aside; an item
\* without 'value' raises KeyError at item['value'], which the except
\* clause of the parse does not name; an item whose value is NaN raises
\* InvalidOperation in ExamResult.save, at the comparison with the limit;
\* an item whose value is text is skipped; for the others
\* ExamResult.objects.update_or_create(exam, biomarker, defaults={'value': value}).
RECURSIVE SaveItems(_, _, _, _, _)
SaveItems(t, e, gender, items, k) ==
    IF k > Len(items) \/ t.raised THEN t
    ELSE IF ~Matched(items[k]) \/ items[k].kind = "text"
         THEN SaveItems(t, e, gender, items, k + 1)
    ELSE IF items[k].kind \in {"absent", "nan"}
         THEN [t EXCEPT !.raised = TRUE]
    ELSE LET it  == items[k]
             old == {r \in t.rs : r.exam = e /\ r.code = it.code}
             new == [id |-> t.nid, exam |-> e, code |-> it.code,
                     value |-> Quantize(it.value)]
         IN  IF old # {}
             THEN LET r == CHOOSE x \in old : TRUE
                  IN  SaveItems([rs  |-> (t.rs \ {r})
                                           \cup {[r EXCEPT !.value = Quantize(it.value)]},
                                 d   |-> [t.d EXCEPT ![r.id] =
                                            Derive(it.code, gender, it.value)],
                                 nid |-> t.nid,
                                 raised |-> FALSE],
                                e, gender, items, k + 1)
             ELSE SaveItems([rs  |-> t.rs \cup {new},
                             d   |-> (t.nid :> Derive(it.code, gender, it.value)) @@ t.d,
                             nid |-> t.nid + 1,
                             raised |-> FALSE],
                            e, gender, items, k + 1)

\* The flags process_exam appends to those of validate_exam: one
\* info/unmatched flag, on no measurement, for each item set aside.
RECURSIVE UnmatchedFlags(_)
UnmatchedFlags(items) ==
    IF items = <<>> THEN <<>>
    ELSE (IF Matched(Head(items)) THEN <<>>
          ELSE <<Flag(None, "UNKNOWN", "info", "unmatched", None, None, 0)>>)
             \o UnmatchedFlags(Tail(items))

\* The steps of process_exam inside its try block.
TryPcs == {"extract", "validate", "apply", "save", "analysis"}

\* upload_view: exam.save() of a new exam, status at its default 'pending';
\* process_exam(exam) follows.
Upload ==
    /\ Len(exams) < MaxUploads
    /\ \E u \in DOMAIN Gender :
          /\ \A e \in DOMAIN exams : exams[e].user = u
          /\ exams' = Append(exams, [user |-> u, exam_date |-> Len(exams) + 1,
                                     status |-> "pending", error_message |-> ""])
    /\ stored' = Append(stored, <<>>)
    /\ run' = Append(run, Frame("start", <<>>, <<>>, "none", "", 1))
    /\ UNCHANGED <<catalog, results, nextId, call, hist, derived>>

\* The process_exam invocations made so far.
RECURSIVE Invocations(_)
Invocations(rn) ==
    IF rn = <<>> THEN 0 ELSE Head(rn).n + Invocations(Tail(rn))

\* exam_reprocess_view, its first write: exam.results.all().delete(); the
\* ExamValidation rows that point to a deleted result go with it.
ReprocessDelete(e) ==
    /\ e \in DOMAIN exams
    /\ run[e].pc = "idle"
    /\ Invocations(run) < MaxRuns
    /\ results' = {r \in results : r.exam # e}
    /\ derived' = [id \in {r.id : r \in results'} |-> derived[id]]
    /\ stored' = [stored EXCEPT ![e] = SelectSeq(@, LAMBDA row : row.flag.rid = None)]
    /\ run' = [run EXCEPT ![e] = Frame("reset", <<>>, <<>>, "none", "", @.n + 1)]
    /\ UNCHANGED <<catalog, exams, nextId, call, hist>>

\* exam_reprocess_view, its second write: exam.status = 'pending',
\* exam.error_message = '', exam.save(); process_exam(exam) follows.
ReprocessReset(e) ==
    /\ e \in DOMAIN exams
    /\ run[e].pc = "reset"
    /\ exams' = [exams EXCEPT ![e].status = "pending", ![e].error_message = ""]
    /\ run' = [run EXCEPT ![e].pc = "start"]
    /\ UNCHANGED <<catalog, results, nextId, stored, call, hist, derived>>

\* A process_exam that marks the exam completed at once.
RunStartCompleting(e) ==
    /\ e \in DOMAIN exams
    /\ run[e].pc = "start"
    /\ exams' = [exams EXCEPT ![e].status = "completed"]
    /\ run' = [run EXCEPT ![e].pc = "extract"]
    /\ UNCHANGED <<catalog, results, nextId, stored, call, hist, derived>>

\* exam.status = 'processing'; exam.save(update_fields=['status'])
RunStart(e) ==
    /\ e \in DOMAIN exams
    /\ run[e].pc = "start"
    /\ exams' = [exams EXCEPT ![e].status = "processing"]
    /\ run' = [run EXCEPT ![e].pc = "extract"]
    /\ UNCHANGED <<catalog, results, nextId, stored, call, hist, derived>>

\* Steps 1 and 2: extraction, then the update_or_create loop over its items.
RunExtract(e) ==
    /\ e \in DOMAIN exams
    /\ run[e].pc = "extract"
    /\ \E items \in ExtractedLists :
          LET t == SaveItems([rs |-> results, d |-> derived, nid |-> nextId,
                              raised |-> FALSE],
                             e, Gender[exams[e].user], items, 1)
          IN  /\ results' = t.rs
              /\ derived' = t.d
              /\ nextId' = t.nid
              /\ run' = [run EXCEPT
                           ![e].pc = IF t.raised THEN "handler" ELSE "validate",
                           ![e].raisedAt = IF t.raised THEN "extract" ELSE @,
                           ![e].items = items]
    /\ UNCHANGED <<catalog, exams, stored, call, hist>>

\* A validate_exam that writes its corrections and returns the flags of the
\* corrected panel.
RunValidateCorrecting(e) ==
    /\ e \in DOMAIN exams
    /\ run[e].pc = "validate"
    /\ \E order \in DateOrders(exams, PreviousCompleted(exams, e)) :
          /\ results' = ApplyFlags(results, ValidateFlags(results, exams, e, order))
          /\ run' = [run EXCEPT ![e].pc = "apply",
                                ![e].flags = ValidateFlags(results', exams, e, order)]
    /\ UNCHANGED <<catalog, exams, nextId, stored, call, hist, derived>>

\* Step 3: validation_flags = validate_exam(exam), then the flags of the
\* items no biomarker matched
RunValidate(e) ==
    /\ e \in DOMAIN exams
    /\ run[e].pc = "validate"
    /\ \E order \in DateOrders(exams, PreviousCompleted(exams, e)) :
          run' = [run EXCEPT ![e].pc = "apply",
                             ![e].flags = ValidateFlags(results, exams, e, order)
                                             \o UnmatchedFlags(run[e].items)]
    /\ UNCHANGED <<catalog, exams, results, nextId, stored, call, hist, derived>>

\* Step 4: apply_auto_corrections(exam, validation_flags)
RunApply(e) ==
    /\ e \in DOMAIN exams
    /\ run[e].pc = "apply"
    /\ AllCorrectionsResolve(results, run[e].flags)
    /\ \E rs1 \in {ApplyFlags(results, run[e].flags)} :
       LET est == BasoToEstimate(rs1, catalog, e)
           v   == BasoEstimate(ResultsByCode(rs1, e))
       IN  /\ results' = IF est
                         THEN rs1 \cup {[id |-> nextId, exam |-> e,
                                         code |-> "BASO", value |-> v]}
                         ELSE rs1
           /\ nextId' = IF est THEN nextId + 1 ELSE nextId
           /\ derived' = DeriveRows(derived, results', exams,
                                    SavedIds(run[e].flags)
                                        \cup (IF est THEN {nextId} ELSE {}))
           /\ run' = [run EXCEPT
                        ![e].pc = "save",
                        ![e].flags = IF est THEN Append(@, BasoFlag(nextId, v)) ELSE @]
    /\ UNCHANGED <<catalog, exams, stored, call, hist>>

\* Step 5: save_validation_flags(exam, validation_flags)
RunSave(e) ==
    /\ e \in DOMAIN exams
    /\ run[e].pc = "save"
    /\ stored' = [stored EXCEPT ![e] = StoredRows(run[e].flags)]
    /\ run' = [run EXCEPT ![e].pc = "analysis"]
    /\ UNCHANGED <<catalog, exams, results, nextId, call, hist, derived>>

\* A process_exam that refuses an exam with an error flag.
RunCompleteRejecting(e) ==
    /\ e \in DOMAIN exams
    /\ run[e].pc = "analysis"
    /\ exams' = [exams EXCEPT ![e].status =
                    IF \E i \in 1..Len(run[e].flags) : run[e].flags[i].severity = "error"
                    THEN "error" ELSE "completed"]
    /\ run' = [run EXCEPT ![e].pc = "idle", ![e].ret = "true"]
    /\ UNCHANGED <<catalog, results, nextId, stored, call, hist, derived>>

\* Step 6 and the end of the try block: generate_ai_analysis(exam),
\* exam.status = 'completed', exam.save(...), return True
RunComplete(e) ==
    /\ e \in DOMAIN exams
    /\ run[e].pc = "analysis"
    /\ exams' = [exams EXCEPT ![e].status = "completed"]
    /\ run' = [run EXCEPT ![e].pc = "idle", ![e].ret = "true"]
    /\ UNCHANGED <<catalog, results, nextId, stored, call, hist, derived>>

\* A call of the try block raises: control goes to the except clause.
RunRaise(e) ==
    /\ e \in DOMAIN exams
    /\ run[e].pc \in TryPcs
    /\ run' = [run EXCEPT ![e].pc = "handler", ![e].raisedAt = run[e].pc]
    /\ UNCHANGED <<catalog, exams, results, nextId, stored, call, hist, derived>>

\* except Exception: exam.status = 'error'; exam.error_message = str(e);
\* exam.save(...); return False
RunHandler(e) ==
    /\ e \in DOMAIN exams
    /\ run[e].pc = "handler"
    /\ exams' = [exams EXCEPT ![e].status = "error", ![e].error_message = "failed"]
    /\ run' = [run EXCEPT ![e].pc = "idle", ![e].ret = "false"]
    /\ UNCHANGED <<catalog, results, nextId, stored, call, hist, derived>>

\* The exam.save(...) of the except clause raises in its turn (the store the
\* try block failed on is still failing): the exception leaves process_exam.
RunHandlerRaises(e) ==
    /\ e \in DOMAIN exams
    /\ run[e].pc = "handler"
    /\ run' = [run EXCEPT ![e].pc = "idle", ![e].ret = "raised"]
    /\ UNCHANGED <<catalog, exams, results, nextId, stored, call, hist, derived>>

InitRun ==
    /\ catalog = Codes
    /\ exams = <<>>
    /\ results = {}
    /\ derived = <<>>
    /\ nextId = 1
    /\ stored = <<>>
    /\ run = <<>>
    /\ call = NoCall
    /\ hist = [exam |-> 0, flags |-> <<>>, clean |-> FALSE, twice |-> FALSE,
               first |-> <<>>, pre |-> {}, preApply |-> {}, preFlags |-> <<>>]

NextRun ==
    \/ Upload
    \/ \E e \in ExamIds : ReprocessDelete(e)
    \/ \E e \in ExamIds : ReprocessReset(e)
    \/ \E e \in ExamIds : RunStart(e)
    \/ \E e \in ExamIds : RunExtract(e)
    \/ \E e \in ExamIds : RunValidate(e)
    \/ \E e \in ExamIds : RunApply(e)
    \/ \E e \in ExamIds : RunSave(e)
    \/ \E e \in ExamIds : RunComplete(e)
    \/ \E e \in ExamIds : RunRaise(e)
    \/ \E e \in ExamIds : RunHandler(e)
    \/ \E e \in ExamIds : RunHandlerRaises(e)

\* The requests of one user on the exams they upload.
SpecRun == InitRun /\ [][NextRun]_vars

-----------------------------------------------------------------------------
(* Vocabulary of the properties *)

\* validate_exam has returned for hist.exam; hist.pre holds the rows it read.
Validated == hist.exam # 0

\* apply_auto_corrections has run on the flag list of that call.
Applied == Validated /\ call.applied >= 1

PrePanel == ResultsByCode(hist.pre, hist.exam)

PostPanel == ResultsByCode(results, hist.exam)

Primary == {"NEUT", "LYMPH", "MONO", "EOS"}

PrimaryIn(rbc) == {c \in Primary : HasCode(rbc, c)}

ValueOrZero(rbc, c) == IF HasCode(rbc, c) THEN Row(rbc, c).value ELSE 0

PrimarySum(rbc) ==
    ValueOrZero(rbc, "NEUT") + ValueOrZero(rbc, "LYMPH")
        + ValueOrZero(rbc, "MONO") + ValueOrZero(rbc, "EOS")

\* The positions of the flags of one category in a flag list.
OfCategory(fl, cat) == {i \in 1..Len(fl) : fl[i].category = cat}

-----------------------------------------------------------------------------
(* C1 *)

-----------------------------------------------------------------------------
(* C2 *)

\* C2: with WBC >= 1000 and at least two primary components present, every
\* present primary component gets one auto_corrected/wbc_percentage flag if
\* all present primary values are below 100 and their sum lies strictly
\* between 50 and 110; otherwise there is no wbc_percentage flag at all.
C2_AllOrNothing ==
    (/\ Validated
     /\ HasCode(PrePanel, "WBC")
     /\ ValueOrZero(PrePanel, "WBC") >= Units(1000)
     /\ Cardinality(PrimaryIn(PrePanel)) >= 2)
    => LET pct == OfCategory(hist.flags, "wbc_percentage")
       IN  IF /\ \A c \in PrimaryIn(PrePanel) : Row(PrePanel, c).value < Units(100)
              /\ PrimarySum(PrePanel) > Units(50)
              /\ PrimarySum(PrePanel) < Units(110)
           THEN /\ \A c \in PrimaryIn(PrePanel) :
                      Cardinality({i \in pct : hist.flags[i].code = c}) = 1
                /\ \A i \in pct : /\ hist.flags[i].code \in PrimaryIn(PrePanel)
                                  /\ hist.flags[i].severity = "auto_corrected"
           ELSE pct = {}

\* Detection fired on a panel of four percentages.
C2_Witness ==
    /\ Validated
    /\ Cardinality(PrimaryIn(PrePanel)) = 4
    /\ Cardinality(OfCategory(hist.flags, "wbc_percentage")) = 4

-----------------------------------------------------------------------------
(* C3 *)

\* C3: the corrected value of every wbc_percentage flag is the whole number
\* nearest to original * WBC / 100, WBC being the panel's total when
\* validate_exam ran, and once apply_auto_corrections has run the flagged
\* measurement holds that corrected value.
C3_CorrectedValue ==
    Validated =>
        \A i \in OfCategory(call.flags, "wbc_percentage") :
            LET f == call.flags[i]
                w == Row(PrePanel, "WBC").value
            IN  /\ f.severity = "auto_corrected"
                /\ f.original_value = Some(Row(PrePanel, f.code).value)
                /\ f.rid = Some(Row(PrePanel, f.code).id)
                /\ \E n \in 0..(w \div 10) :
                      /\ f.corrected_value = Some(Units(n))
                      /\ 2 * Abs(n * 10000 - Row(PrePanel, f.code).value * w) <= 10000
                /\ Applied => f.corrected_value = Some(Row(PostPanel, f.code).value)

\* WBC=8000, NEUT=58, LYMPH=30, MONO=8, EOS=4: four flags, NEUT stored as 4640.
C3_Witness ==
    /\ Applied
    /\ Cardinality(OfCategory(call.flags, "wbc_percentage")) = 4
    /\ ValueOrZero(PrePanel, "WBC") = 80000
    /\ ValueOrZero(PrePanel, "NEUT") = 580
    /\ ValueOrZero(PostPanel, "NEUT") = 46400

-----------------------------------------------------------------------------
(* C4 *)

PreApplyPanel == ResultsByCode(hist.preApply, hist.exam)

\* The rows the latest apply_auto_corrections call inserted.
Inserted == {r \in results : \A b \in hist.preApply : b.id # r.id}

BasoInfoFlag(f) ==
    /\ f.code = "BASO"
    /\ f.severity = "info"
    /\ f.category = "cross_biomarker"

\* WBC and the four primary components are there and BASO is not.
BasoMissing(rbc) ==
    /\ ~HasCode(rbc, "BASO")
    /\ HasCode(rbc, "WBC")
    /\ PrimaryIn(rbc) = Primary

\* WBC minus the four primary components, as the rows stand after the call.
Remainder == ValueOrZero(PostPanel, "WBC") - PrimarySum(PostPanel)

\* C4 as claimed: apply_auto_corrections on a panel without BASO that has
\* WBC and the four primary components inserts a BASO measurement of value
\* max(0, WBC - (NEUT+LYMPH+MONO+EOS)) and appends one info/cross_biomarker
\* flag; in every other case it inserts nothing and appends no flag.
C4_AsClaimed ==
    Applied =>
        IF BasoMissing(PreApplyPanel)
        THEN /\ \E r \in Inserted :
                   /\ Inserted = {r}
                   /\ r.exam = hist.exam
                   /\ r.code = "BASO"
                   /\ r.value = Max(0, Remainder)
                   /\ \E f \in {Flag(Some(r.id), "BASO", "info", "cross_biomarker",
                                     None, Some(r.value), 0)} :
                          call.flags = Append(hist.preFlags, f)
        ELSE Inserted = {} /\ call.flags = hist.preFlags

\* C4 amended: the same, provided the catalog holds a BASO definition, the
\* inserted value being max(0, WBC - (NEUT+LYMPH+MONO+EOS)) rounded to the
\* nearest whole number; without a BASO definition in the catalog nothing is
\* inserted and no flag is appended.
C4_Estimation ==
    Applied =>
        IF BasoMissing(PreApplyPanel) /\ "BASO" \in catalog
        THEN /\ \E r \in Inserted :
                   /\ Inserted = {r}
                   /\ r.exam = hist.exam
                   /\ r.code = "BASO"
                   /\ r.value >= 0
                   /\ r.value % 10 = 0
                   /\ 2 * Abs(r.value - Max(0, Remainder)) <= 10
                   /\ \E f \in {Flag(Some(r.id), "BASO", "info", "cross_biomarker",
                                     None, Some(r.value), 0)} :
                          call.flags = Append(hist.preFlags, f)
        ELSE Inserted = {} /\ call.flags = hist.preFlags

\* WBC=8000, NEUT=4640, LYMPH=2400, MONO=640, EOS=320, no BASO: BASO=0 inserted.
C4_Witness ==
    /\ Applied
    /\ BasoMissing(PreApplyPanel)
    /\ ValueOrZero(PreApplyPanel, "WBC") = 80000
    /\ ValueOrZero(PreApplyPanel, "NEUT") = 46400
    /\ HasCode(PostPanel, "BASO")
    /\ ValueOrZero(PostPanel, "BASO") = 0
    /\ BasoInfoFlag(call.flags[Len(call.flags)])

-----------------------------------------------------------------------------
(* C5 *)

\* C5 as claimed: with the WBC total below 1000, or fewer than two primary
\* components present, validate_exam followed by apply_auto_corrections
\* emits no wbc_percentage flag, overwrites no value and inserts no BASO.
C5_ErrorPolicy ==
    (/\ Applied
     /\ \/ (HasCode(PrePanel, "WBC") /\ ValueOrZero(PrePanel, "WBC") < Units(1000))
        \/ Cardinality(PrimaryIn(PrePanel)) < 2)
    => /\ OfCategory(call.flags, "wbc_percentage") = {}
       /\ results = hist.pre

-----------------------------------------------------------------------------
(* C6 *)

\* C6: across validate_exam and apply_auto_corrections no measurement is
\* deleted, a value changes only on a row an auto_corrected flag points to
\* and then to that flag's corrected value, at most one row is inserted and
\* it is the BASO of the validated exam, and the rows of every other exam
\* stay as they were.
C6_MutationScope ==
    Validated =>
        /\ \A b \in hist.pre :
              \E r \in results :
                  /\ r.id = b.id /\ r.exam = b.exam /\ r.code = b.code
                  /\ \/ r.value = b.value
                     \/ \E i \in 1..Len(hist.flags) :
                            /\ hist.flags[i].severity = "auto_corrected"
                            /\ hist.flags[i].rid = Some(b.id)
                            /\ hist.flags[i].corrected_value = Some(r.value)
        /\ LET new == {r \in results : \A b \in hist.pre : b.id # r.id}
           IN  /\ Cardinality(new) <= 1
               /\ \A r \in new : r.code = "BASO" /\ r.exam = hist.exam
        /\ \A r \in results : r.exam # hist.exam => r \in hist.pre

\* Percentages were overwritten and BASO inserted while other exams hold rows.
C6_Witness ==
    /\ Applied
    /\ \E b \in PrePanel : \E r \in PostPanel : r.id = b.id /\ r.value # b.value
    /\ HasCode(PostPanel, "BASO") /\ ~HasCode(PrePanel, "BASO")
    /\ \E r \in results : r.exam # hist.exam /\ r.code = "NEUT" /\ r.value = 580

-----------------------------------------------------------------------------
(* C7 *)

\* C7: a validate_exam call leaves every measurement, the set of
\* measurements of every exam, every exam status and every stored flag as
\* they were.
C7_ReadOnly ==
    [][(\E e \in ExamIds : ValidateExam(e))
          => UNCHANGED <<results, exams, stored, catalog, nextId, derived>>]_vars

\* validate_exam returned flags for an exam whose percentages are still in
\* place, while another exam has stored flags.
C7_Witness ==
    /\ Validated
    /\ call.applied = 0
    /\ OfCategory(hist.flags, "wbc_percentage") # {}
    /\ results = hist.pre
    /\ \E e \in DOMAIN stored : e # hist.exam /\ stored[e] # <<>>

-----------------------------------------------------------------------------
(* C8 *)

\* C8: a measurement whose code has bounds gets exactly one
\* error/physiological flag if its value is below the minimum or above the
\* maximum and none if it lies within the bounds, the bounds included; a
\* code without bounds never gets one.
C8_RangeCheck ==
    Validated =>
        \A c \in Codes :
            LET hits == {i \in OfCategory(hist.flags, "physiological") :
                            hist.flags[i].code = c}
            IN  IF /\ HasCode(PrePanel, c)
                   /\ c \in DOMAIN PHYSIOLOGICAL_LIMITS
                   /\ \/ Row(PrePanel, c).value < PHYSIOLOGICAL_LIMITS[c][1]
                      \/ Row(PrePanel, c).value > PHYSIOLOGICAL_LIMITS[c][2]
                THEN /\ Cardinality(hits) = 1
                     /\ \A i \in hits : hist.flags[i].severity = "error"
                ELSE hits = {}

\* HGB 2.9 is flagged next to a code that has no bounds.
C8_Witness ==
    /\ Validated
    /\ ValueOrZero(PrePanel, "HGB") = 29
    /\ HasCode(PrePanel, "APOB")
    /\ \E i \in OfCategory(hist.flags, "physiological") : hist.flags[i].code = "HGB"

-----------------------------------------------------------------------------
(* C9 *)

LipidFlags ==
    {i \in OfCategory(hist.flags, "cross_biomarker") :
        hist.flags[i].code = "CT" /\ hist.flags[i].severity = "warning"}

-----------------------------------------------------------------------------
(* C10 *)

WbcSumFlags ==
    {i \in OfCategory(hist.flags, "cross_biomarker") :
        hist.flags[i].code = "WBC" /\ hist.flags[i].severity = "warning"}

-----------------------------------------------------------------------------
(* C11 *)

\* The exams the duplicate check compares hist.exam with: the other completed
\* exams of its user.
Compared ==
    {p \in DOMAIN exams : /\ p # hist.exam
                          /\ exams[p].user = exams[hist.exam].user
                          /\ exams[p].status = "completed"}

PanelAt(p) == {r \in hist.pre : r.exam = p}

\* The codes both panels hold, and those of them with equal values.
Shared(p) == {r.code : r \in PrePanel} \cap {r.code : r \in PanelAt(p)}

Equal(p) ==
    {c \in Shared(p) : \E r \in PrePanel : \E q \in PanelAt(p) :
        r.code = c /\ q.code = c /\ r.value = q.value}

DuplicateFlags == OfCategory(hist.flags, "duplicate_exam")

\* C11: every compared prior panel gets exactly one warning/duplicate_exam
\* flag, of code "EXAM" and pointing to no measurement, if the two panels
\* share at least 5 codes and equal values / shared codes * 100 exceeds 80,
\* and none otherwise.
C11_DuplicateThreshold ==
    Validated =>
        /\ \A i \in DuplicateFlags :
              /\ hist.flags[i].code = "EXAM"
              /\ hist.flags[i].severity = "warning"
              /\ hist.flags[i].rid = None
              /\ hist.flags[i].ref \in Compared
        /\ \A p \in Compared :
              Cardinality({i \in DuplicateFlags : hist.flags[i].ref = p})
                  = IF /\ Cardinality(Shared(p)) >= 5
                       /\ Cardinality(Equal(p)) * 100 > 80 * Cardinality(Shared(p))
                    THEN 1 ELSE 0

\* 5 of 6 shared codes equal, against two prior panels: two flags.
C11_Witness ==
    /\ Validated
    /\ Cardinality(DuplicateFlags) = 2
    /\ \A p \in Compared : Cardinality(Shared(p)) = 6 /\ Cardinality(Equal(p)) = 5

-----------------------------------------------------------------------------
(* C12 *)

\* The completed exams of the user dated before hist.exam.
Before ==
    {p \in DOMAIN exams : /\ exams[p].user = exams[hist.exam].user
                          /\ exams[p].status = "completed"
                          /\ exams[p].exam_date < exams[hist.exam].exam_date}

\* The most recent of them, the one uploaded last among those of one date.
MostRecent ==
    {p \in Before : \A q \in Before :
        \/ exams[q].exam_date < exams[p].exam_date
        \/ (exams[q].exam_date = exams[p].exam_date /\ q <= p)}

HistoricalFlags == OfCategory(hist.flags, "historical")

C12_WitnessOlder ==
    /\ Validated
    /\ ValueOrZero(PrePanel, "CREA") = 30
    /\ \E p \in MostRecent : \A r \in PanelAt(p) : r.code # "CREA"
    /\ \E q \in Before \ MostRecent : \E r \in PanelAt(q) : r.code = "CREA" /\ r.value = 9
    /\ HistoricalFlags = {}

-----------------------------------------------------------------------------
(* C13 *)

\* C13: a save_validation_flags call leaves the exam with exactly the given
\* list as its stored flags, none of them resolved, whatever it had stored
\* before, and leaves the stored flags of every other exam as they were.
C13_SaveReplaces ==
    [][SaveValidationFlags =>
          /\ Len(stored'[call.exam]) = Len(call.flags)
          /\ \A i \in 1..Len(call.flags) :
                /\ stored'[call.exam][i].flag = call.flags[i]
                /\ ~stored'[call.exam][i].resolved
          /\ \A e \in DOMAIN stored : e # call.exam => stored'[e] = stored[e]]_vars

\* The call has replaced a resolved flag of an earlier run by a list of flags,
\* while another exam has stored flags.
C13_Witness ==
    /\ Applied
    /\ Len(call.flags) >= 2
    /\ Len(stored[call.exam]) = Len(call.flags)
    /\ \A i \in 1..Len(call.flags) :
          stored[call.exam][i] = [flag |-> call.flags[i], resolved |-> FALSE]
    /\ \E e \in DOMAIN stored : e # call.exam /\ stored[e] # <<>>

-----------------------------------------------------------------------------
(* C14 *)

\* The derived fields a row would have if they were computed from the value
\* the store holds.
FromStored(r) ==
    LET ref == StandardRef(r.code, Gender[exams[r.exam].user])
    IN  [ref_min     |-> ref[1],
         ref_max     |-> ref[2],
         is_abnormal |-> \/ \E m \in ref[1] : r.value < m
                         \/ \E m \in ref[2] : r.value > m]

\* C14: every stored measurement carries the reference limits of its
\* biomarker for the gender of the exam's user, and is_abnormal is true
\* exactly when the stored value is below the lower or above the upper limit,
\* after the extraction's write as after a correction's.
C14_DerivedFields ==
    \A r \in results : derived[r.id] = FromStored(r)

\* A completed run whose extraction reported CREA 1.24 for a male user: the
\* row holds 1.2, which is the upper limit, and is flagged abnormal.
C14_RoundedAcrossLimit ==
    \E r \in results :
        /\ exams[r.exam].status = "completed"
        /\ r.code = "CREA" /\ r.value = 12
        /\ Gender[exams[r.exam].user] = "M"
        /\ derived[r.id].is_abnormal
        /\ ~FromStored(r).is_abnormal

-----------------------------------------------------------------------------
(* C15 *)

\* The measurements of exam e for code c.
RowsFor(e, c) == {r \in results : r.exam = e /\ r.code = c}

\* C15: an exam holds at most one measurement per biomarker code, whatever
\* sequence of process_exam runs and reprocess requests led to the state.
C15_OnePerCode ==
    \A e \in DOMAIN exams : \A c \in Codes : Cardinality(RowsFor(e, c)) <= 1

\* An exam whose extraction reported one code twice holds one measurement of
\* it, and an exam processed a second time holds one estimated BASO.
C15_Witness ==
    \E e1, e2 \in DOMAIN exams :
        /\ run[e1].pc = "idle" /\ run[e1].ret = "true"
        /\ \E i, j \in DOMAIN run[e1].items :
              i < j /\ run[e1].items[i].code = run[e1].items[j].code
                    /\ Cardinality(RowsFor(e1, run[e1].items[i].code)) = 1
        /\ run[e2].pc = "idle" /\ run[e2].ret = "true" /\ run[e2].n = 2
        /\ Cardinality(RowsFor(e2, "BASO")) = 1
        /\ \E i \in DOMAIN run[e2].flags :
              /\ run[e2].flags[i].code = "BASO"
              /\ run[e2].flags[i].category = "cross_biomarker"

-----------------------------------------------------------------------------
(* C16 *)

\* The status changes process_exam makes.
ProcessSteps ==
    {<<"pending", "processing">>, <<"processing", "completed">>,
     <<"processing", "error">>}

\* The exams whose status the step changes.
StatusChanged == {e \in DOMAIN exams : exams'[e].status # exams[e].status}

\* The statement without the reprocess request: every change of an exam's
\* status is pending -> processing, processing -> completed or
\* processing -> error.
C16_AsClaimed ==
    [][\A e \in StatusChanged :
          <<exams[e].status, exams'[e].status>> \in ProcessSteps]_vars

\* C16: a new exam starts pending; every change of an exam's status is
\* pending -> processing, processing -> completed or processing -> error,
\* except that a reprocess request, made when no run of the exam is in
\* flight, sets the status back to pending after deleting the measurements.
C16_Lifecycle ==
    [][/\ \A e \in DOMAIN exams' \ DOMAIN exams : exams'[e].status = "pending"
       /\ \A e \in StatusChanged :
             \/ <<exams[e].status, exams'[e].status>> \in ProcessSteps
             \/ /\ exams'[e].status = "pending"
                /\ exams[e].status \in {"completed", "error", "processing"}
                /\ run[e].pc = "reset"
                /\ run'[e].pc = "start"]_vars

\* An exam completed by the run that followed a reprocess request.
C16_Witness ==
    \E e \in DOMAIN exams :
        /\ run[e].n = 2
        /\ run[e].pc = "idle" /\ run[e].ret = "true"
        /\ exams[e].status = "completed"

-----------------------------------------------------------------------------
(* C17 *)

\* validate_exam has returned its flags for exam e and save_validation_flags
\* has not yet stored them.
InFlight(e) == run[e].pc \in {"apply", "save"}

\* A request is between its first write to exam e and its last.
Writing(e) == run[e].pc \notin {"idle", "start"}

SameUser(e1, e2) == e1 # e2 /\ exams[e1].user = exams[e2].user

NoTwoInFlight ==
    \A e1, e2 \in DOMAIN exams : SameUser(e1, e2) => ~(InFlight(e1) /\ InFlight(e2))

\* The step is validate_exam on e1 and another exam of the user, read by the
\* history queries because its status is completed, is being written.
ReadsWriting ==
    \E e1, e2 \in DOMAIN exams :
        /\ SameUser(e1, e2)
        /\ run[e1].pc = "validate" /\ run'[e1].pc = "apply"
        /\ exams[e2].status = "completed" /\ Writing(e2)

NoHalfWrittenRead == [][~ReadsWriting]_vars

\* C17: two validation runs of one user are never in flight together, and no
\* validation reads an exam that another request is still writing.
C17_Serialized ==
    []NoTwoInFlight /\ NoHalfWrittenRead

-----------------------------------------------------------------------------
(* C18 *)

\* The calls of the validation engine in process_exam.
EngineSteps == {"validate", "apply", "save"}

\* The run of exam e is over and one of the engine's calls raised in it.
EngineFailed(e) == run[e].pc = "idle" /\ run[e].raisedAt \in EngineSteps

\* C18: when validate_exam, apply_auto_corrections or save_validation_flags
\* raises inside process_exam, the run leaves the exam in status error with
\* the error message recorded, never completed, and returns False.
C18_FailureHandling ==
    \A e \in DOMAIN exams :
        /\ run[e].raisedAt \in EngineSteps =>
              exams[e].status # "completed" /\ run[e].ret # "true"
        /\ EngineFailed(e) =>
              /\ exams[e].status = "error"
              /\ exams[e].error_message # ""
              /\ run[e].ret = "false"

\* What holds of every run: a run in which an engine call raised never
\* completes the exam nor returns True, and either returns False with status
\* error and the message recorded, or ends by the exception of the except
\* clause's own exam.save(), the exam left in status processing.
C18_HandledOrEscapes ==
    \A e \in DOMAIN exams :
        /\ run[e].raisedAt \in EngineSteps =>
              exams[e].status # "completed" /\ run[e].ret # "true"
        /\ EngineFailed(e) =>
              \/ /\ exams[e].status = "error"
                 /\ exams[e].error_message # ""
                 /\ run[e].ret = "false"
              \/ /\ exams[e].status = "processing"
                 /\ run[e].ret = "raised"

\* A run in which apply_auto_corrections raised and whose except clause
\* could not write: the exam stays in status processing.
C18_LeftProcessing ==
    \E e \in DOMAIN exams :
        /\ EngineFailed(e) /\ run[e].raisedAt = "apply"
        /\ exams[e].status = "processing"
        /\ run[e].ret = "raised"

-----------------------------------------------------------------------------
(* C19 *)

Severities(fl) == {fl[i].severity : i \in DOMAIN fl}

\* The run of exam e is over and no step of it raised.
RanClean(e) == run[e].pc = "idle" /\ run[e].n > 0 /\ run[e].raisedAt = ""

\* Every measurement is still there after the step, unless the step is the
\* delete of a reprocess request.
KeepsMeasurements ==
    \A r \in results :
        \/ \E r2 \in results' : r2.id = r.id /\ r2.exam = r.exam /\ r2.code = r.code
        \/ run[r.exam].pc = "idle" /\ run'[r.exam].pc = "reset"

\* C19: a run in which no step raised ends with the exam completed and
\* returns True whatever flags validation produced; an exam is in status
\* error only after a run in which a step raised; and no step of a run
\* removes a measurement.
C19_FlagsOnlyAnnotate ==
    /\ [](\A e \in DOMAIN exams :
             /\ RanClean(e) => exams[e].status = "completed" /\ run[e].ret = "true"
             /\ run[e].pc = "idle" /\ exams[e].status = "error" =>
                   run[e].raisedAt # "")
    /\ [][KeepsMeasurements]_vars

\* A completed exam whose run stored flags of all four severities.
C19_Witness ==
    \E e \in DOMAIN exams :
        /\ RanClean(e)
        /\ exams[e].status = "completed"
        /\ run[e].ret = "true"
        /\ Severities(run[e].flags) = {"error", "warning", "auto_corrected", "info"}
        /\ stored[e] = StoredRows(run[e].flags)
        /\ \A i \in DOMAIN run[e].flags : \A id \in run[e].flags[i].rid :
              \E r \in results : r.id = id /\ r.exam = e

-----------------------------------------------------------------------------
(* C20 *)

\* The flags of the four layers that read the exam's own panel, as the panel
\* is now.
OwnFlagsNow(e) == FirstRunFlags(ResultsByCode(results, e))

\* The flags of a list that those four layers produced.
OwnFlags(fl) ==
    SelectSeq(fl, LAMBDA f : f.category \notin {"duplicate_exam", "historical",
                                                 "unmatched"})

\* The corrections of the flag list are in the rows of the exam.
CorrectionsApplied(e, fl) ==
    \A i \in DOMAIN fl :
        IsCorrection(fl[i]) =>
            \E r \in results : /\ r.exam = e
                               /\ Some(r.id) = fl[i].rid
                               /\ Some(r.value) = fl[i].corrected_value

\* The step writes a value of exam e or inserts a measurement into it.
WritesPanel(e) ==
    \E r2 \in results' : r2.exam = e /\ r2 \notin results

\* C20: in a run, the flags of validate_exam exist, computed from the values
\* the panel still holds, before a correction overwrites a value or the BASO
\* measurement is inserted; the exam is in status processing while its
\* validation runs; and it is marked completed only once the corrections
\* are applied and the flag list is stored.
C20_DetectionBeforeCorrection ==
    /\ [](\A e \in DOMAIN exams :
             /\ run[e].pc \in {"validate", "apply", "save"} =>
                   exams[e].status = "processing"
             /\ run[e].pc = "apply" =>
                   OwnFlags(run[e].flags) = OwnFlagsNow(e)
             /\ run[e].pc = "idle" /\ exams[e].status = "completed" =>
                   /\ CorrectionsApplied(e, run[e].flags)
                   /\ stored[e] = StoredRows(run[e].flags))
    /\ [][\A e \in DOMAIN exams :
             /\ WritesPanel(e) =>
                   \/ run[e].pc = "extract"
                   \/ run[e].pc = "apply" /\ run'[e].pc = "save"
             /\ exams'[e].status = "completed" /\ exams[e].status # "completed" =>
                   /\ run[e].pc = "analysis"
                   /\ CorrectionsApplied(e, run[e].flags)
                   /\ stored[e] = StoredRows(run[e].flags)]_vars

\* A completed exam whose run corrected percentages and inserted BASO after
\* validation had flagged the percentages it read.
C20_Witness ==
    \E e \in DOMAIN exams :
        /\ run[e].pc = "idle" /\ run[e].ret = "true"
        /\ exams[e].status = "completed"
        /\ \E i \in DOMAIN run[e].flags :
              /\ IsCorrection(run[e].flags[i])
              /\ run[e].flags[i].original_value # run[e].flags[i].corrected_value
        /\ \E r \in results : r.exam = e /\ r.code = "BASO"
        /\ \E i \in DOMAIN run[e].flags :
              /\ run[e].flags[i].category = "physiological"
              /\ \A j \in DOMAIN OwnFlagsNow(e) : OwnFlagsNow(e)[j] # run[e].flags[i]

-----------------------------------------------------------------------------
(* C21 *)

\* The latest run of exam e followed a reprocess request and is over.
ReRan(e) == run[e].pc = "idle" /\ run[e].n >= 2

\* The latest run of exam e reached the end of save_validation_flags.
SavedFlags(e) == run[e].raisedAt \in {"", "analysis"}

\* C21: after a re-run of an exam, whether it ended in completed or in
\* error, the flags stored for the exam are those the re-run created: its
\* flag list if it stored one, none otherwise.
C21_NoFlagOutlivesRerun ==
    \A e \in DOMAIN exams :
        ReRan(e) =>
            stored[e] = IF SavedFlags(e) THEN StoredRows(run[e].flags) ELSE <<>>

\* A re-run that raised before it stored flags, the exam still holding the
\* unmatched flag of the run before.
C21_StaleFlag ==
    \E e \in DOMAIN exams :
        /\ ReRan(e) /\ run[e].raisedAt = "extract"
        /\ exams[e].status = "error"
        /\ \E i \in DOMAIN stored[e] : stored[e][i].flag.category = "unmatched"

\* What holds: a re-run that stored its flags left no other flag, and after
\* any re-run no stored flag points to a measurement of an earlier run.
C21_ReplacedWhenSaved ==
    \A e \in DOMAIN exams :
        ReRan(e) =>
            /\ SavedFlags(e) => stored[e] = StoredRows(run[e].flags)
            /\ ~SavedFlags(e) =>
                  \A i \in DOMAIN stored[e] : stored[e][i].flag.rid = None

-----------------------------------------------------------------------------
(* C22 *)

\* The exams the duplicate flags point to, in the order of the flags.
DuplicateRefs ==
    LET fl == SelectSeq(hist.flags, LAMBDA f : f.category = "duplicate_exam")
    IN  [i \in 1..Len(fl) |-> fl[i].ref]

\* The compared exams dated after p, and those dated as p or after.
MoreRecent(p) == {q \in Compared : exams[q].exam_date > exams[p].exam_date}

AtLeastAsRecent(p) ==
    {q \in Compared \ {p} : exams[q].exam_date >= exams[p].exam_date}

\* Exam p has the panel of a duplicate of hist.exam.
SamePanel(p) ==
    /\ Cardinality(Shared(p)) >= DUP_MIN_COMMON
    /\ Cardinality(Equal(p)) * 100 > DUP_MATCH_PCT * Cardinality(Shared(p))

\* C22: the duplicate flags point only to other completed exams of the
\* user, each among the 10 with the most recent exam dates; an exam with 10
\* or more compared exams dated after it gets no flag even with an identical
\* panel; each duplicate among the 10 most recent gets its flag; and the
\* flags come in the order of the exam dates, most recent first.
C22_Window ==
    Validated =>
        /\ \A i \in DOMAIN DuplicateRefs :
              /\ DuplicateRefs[i] \in Compared
              /\ Cardinality(MoreRecent(DuplicateRefs[i])) < DUP_WINDOW
        /\ \A i, j \in DOMAIN DuplicateRefs :
              i < j => /\ DuplicateRefs[i] # DuplicateRefs[j]
                       /\ exams[DuplicateRefs[i]].exam_date
                             >= exams[DuplicateRefs[j]].exam_date
        /\ \A p \in Compared :
              SamePanel(p) /\ Cardinality(AtLeastAsRecent(p)) < DUP_WINDOW =>
                  \E i \in DOMAIN DuplicateRefs : DuplicateRefs[i] = p

\* Eleven completed exams of the user hold the panel of the exam processed:
\* ten flags, none for the oldest.
C22_Witness ==
    /\ Validated
    /\ Cardinality(Compared) = 11
    /\ \A p \in Compared : SamePanel(p)
    /\ Len(DuplicateRefs) = 10
    /\ \A i \in DOMAIN DuplicateRefs : DuplicateRefs[i] # 2
    /\ Cardinality(MoreRecent(2)) = 10

-----------------------------------------------------------------------------
(* C23 *)

\* The latest process_exam invocation on exam e is over.
RunOver(e) == run[e].pc = "idle" /\ run[e].n >= 1

\* C23: a process_exam invocation that is over has left the exam in status
\* completed or error, never processing, and returned True exactly when the
\* status is completed.
C23_Finishes ==
    \A e \in DOMAIN exams :
        RunOver(e) =>
            /\ exams[e].status \in {"completed", "error"}
            /\ run[e].ret \in {"true", "false"}
            /\ run[e].ret = "true" <=> exams[e].status = "completed"

\* An invocation ended by the exception of its except clause after the
\* extraction had raised: nothing returned, the exam in status processing.
C23_StuckProcessing ==
    \E e \in DOMAIN exams :
        /\ RunOver(e) /\ run[e].raisedAt = "extract"
        /\ run[e].ret = "raised"
        /\ exams[e].status = "processing"

\* What holds: an invocation that returned did so with True and the exam
\* completed, or with False and the exam in error; this on every path,
\* the empty extraction included.
C23_ReturnMatchesStatus ==
    \A e \in DOMAIN exams :
        RunOver(e) /\ run[e].ret # "raised" =>
            \/ run[e].ret = "true" /\ exams[e].status = "completed"
            \/ run[e].ret = "false" /\ exams[e].status = "error"

-----------------------------------------------------------------------------
(* C24 *)

\* The positions of the items of the latest extraction of exam e whose
\* biomarker matched and whose value is of one of the kinds.
ItemsOfKind(e, kinds) ==
    {k \in DOMAIN run[e].items :
        Matched(run[e].items[k]) /\ run[e].items[k].kind \in kinds}

\* The extraction loop of exam e dealt with its items of the kinds by
\* skipping them: it did not raise, it saved a measurement for every code
\* reported with a number, and none for a code reported only without.
SkippedKinds(e, kinds) ==
    ItemsOfKind(e, kinds) # {} =>
        /\ run[e].raisedAt # "extract"
        /\ \A k \in ItemsOfKind(e, {"number"}) :
              RowsFor(e, run[e].items[k].code) # {}
        /\ \A k \in ItemsOfKind(e, kinds) :
              (\A j \in ItemsOfKind(e, {"number"}) :
                   run[e].items[j].code # run[e].items[k].code)
                  => RowsFor(e, run[e].items[k].code) = {}

\* C24: an extracted item whose value cannot be parsed as a number, be it
\* text, NaN or missing, is skipped and never aborts the run: the other
\* items of the extraction are saved.
C24_MalformedSkipped ==
    \A e \in DOMAIN exams : SkippedKinds(e, {"text", "absent", "nan"})

\* An extraction with an item that has no value: the run ended in error,
\* the item before it saved, the item after it not.
C24_Aborted ==
    \E e \in DOMAIN exams :
        /\ ItemsOfKind(e, {"absent"}) # {}
        /\ run[e].pc = "idle" /\ run[e].raisedAt = "extract"
        /\ exams[e].status = "error"
        /\ RowsFor(e, "HGB") # {}
        /\ RowsFor(e, "CT") = {}

\* An extraction with a value that is NaN: the run ended in error, the item
\* after it not saved.
C24_AbortedByNaN ==
    \E e \in DOMAIN exams :
        /\ ItemsOfKind(e, {"nan"}) # {}
        /\ run[e].pc = "idle" /\ run[e].raisedAt = "extract"
        /\ exams[e].status = "error"
        /\ RowsFor(e, "CREA") = {}

\* What holds: an item whose value is text is skipped.
C24_TextSkipped ==
    \A e \in DOMAIN exams : SkippedKinds(e, {"text"})

\* A run completed over an extraction with a text value: no measurement for
\* its code, the measurement reported after it saved.
C24_TextSkippedWitness ==
    \E e \in DOMAIN exams :
        /\ ItemsOfKind(e, {"text"}) # {}
        /\ run[e].pc = "idle" /\ run[e].ret = "true"
        /\ exams[e].status = "completed"
        /\ RowsFor(e, "HGB") = {}
        /\ \E r \in RowsFor(e, "CREA") : r.value = 12

-----------------------------------------------------------------------------
(* C25 *)

\* The flag list apply_auto_corrections ran on holds wbc_percentage flags.
PctFired == OfCategory(call.flags, "wbc_percentage") # {}

\* C25: once apply_auto_corrections has written the corrected values of a
\* panel on which the percentage detection fired, the detection finds
\* nothing on the panel as it is then, so a further validate_exam emits no
\* wbc_percentage flag; the corrected primary components sum to more than 110.
C25_FixedPoint ==
    (Applied /\ PctFired) =>
        /\ CheckWbcPercentages(PostPanel) = <<>>
        /\ PrimarySum(PostPanel) > Units(PCT_SUM_HIGH)
        /\ \A order \in DateOrders(exams, PreviousCompleted(exams, hist.exam)) :
              OfCategory(ValidateFlags(results, exams, hist.exam, order),
                         "wbc_percentage") = {}

\* Corrections written on a panel at the floor, WBC = 1000, whose corrected
\* components are all below 1000.
C25_Witness ==
    /\ Applied /\ PctFired
    /\ Row(PostPanel, "WBC").value = Units(WBC_FLOOR)
    /\ \A c \in PrimaryIn(PostPanel) : Row(PostPanel, c).value < Units(WBC_FLOOR)
    /\ \A i \in OfCategory(call.flags, "wbc_percentage") :
          call.flags[i].corrected_value = Some(Row(PostPanel, call.flags[i].code).value)

-----------------------------------------------------------------------------
(* C26 *)

\* C26: in a run where the percentage detection fired, no wbc_percentage
\* flag is on a code other than NEUT, LYMPH, MONO and EOS, and once
\* apply_auto_corrections has run every measurement validate_exam read on
\* another code, WBC and a BASO already there among them, holds the value it
\* had.
C26_LeavesWbcAndBaso ==
    (Validated /\ PctFired) =>
        /\ \A i \in OfCategory(call.flags, "wbc_percentage") :
              call.flags[i].code \in Primary
        /\ Applied =>
              \A r \in PrePanel :
                  r.code \notin Primary => r \in PostPanel

\* Corrections written on a panel of percentages that holds BASO 1.0: the
\* components are overwritten, WBC and BASO are as they were.
C26_Witness ==
    /\ Applied /\ PctFired
    /\ \E r \in PrePanel : r.code = "BASO" /\ r.value < Units(PCT_VALUE_CEIL)
                                          /\ r \in PostPanel
    /\ \E r \in PrePanel : r.code = "WBC" /\ r \in PostPanel
    /\ \A r \in PrePanel : r.code \in Primary => r \notin PostPanel
    /\ Cardinality(PrimaryIn(PrePanel)) = 4

-----------------------------------------------------------------------------
(* C27 *)

\* apply_auto_corrections has run twice on the flag list of one
\* validate_exam call; hist.preApply and hist.preFlags are the measurements
\* and the flag list between the two.
AppliedTwice == Validated /\ call.applied = 2

\* C27: the second of two apply_auto_corrections calls on one flag list
\* changes no measurement and appends no flag: every corrected measurement
\* holds its flag's corrected_value, and the exam has at most one BASO.
C27_ApplyIdempotent ==
    AppliedTwice =>
        /\ results = hist.preApply
        /\ call.flags = hist.preFlags
        /\ \A i \in DOMAIN call.flags :
              IsCorrection(call.flags[i]) =>
                  \E r \in PostPanel : /\ Some(r.id) = call.flags[i].rid
                                       /\ Some(r.value) = call.flags[i].corrected_value
        /\ Cardinality({r \in PostPanel : r.code = "BASO"}) <= 1
        /\ Cardinality({i \in DOMAIN call.flags : BasoInfoFlag(call.flags[i])}) <= 1

\* Two calls on a flag list with four corrections, the first of which
\* inserted BASO.
C27_Witness ==
    /\ AppliedTwice
    /\ Cardinality(OfCategory(call.flags, "wbc_percentage")) = 4
    /\ \E i \in DOMAIN call.flags : BasoInfoFlag(call.flags[i])
    /\ \E r \in PostPanel : r.code = "BASO" /\ r \notin hist.pre
    /\ results = hist.preApply

-----------------------------------------------------------------------------
(* C28 *)

\* The current and the prior value of a historical flag.
CurrentOf(i) == Row(PrePanel, hist.flags[i].code).value

PriorOf(i)   == Row(PanelAt(hist.flags[i].ref), hist.flags[i].code).value

\* A value of the panel that is at most the nonzero value the most recent
\* earlier exam holds for the code, and is not negative.
Decreased(c) ==
    /\ HasCode(PrePanel, c)
    /\ Row(PrePanel, c).value >= 0
    /\ \E p \in MostRecent : /\ HasCode(PanelAt(p), c)
                             /\ Row(PanelAt(p), c).value > 0
                             /\ Row(PrePanel, c).value <= Row(PanelAt(p), c).value

C28_WitnessThrice ==
    /\ Validated
    /\ ValueOrZero(PrePanel, "CREA") = 30
    /\ \E p \in MostRecent : ValueOrZero(PanelAt(p), "CREA") = 10
    /\ HistoricalFlags = {}

\* CREA 0.9 -> -2.0 is flagged: a change of 322 %.
C28_FlaggedDecrease ==
    /\ Validated
    /\ \E i \in HistoricalFlags : /\ hist.flags[i].code = "CREA"
                                  /\ PriorOf(i) = 9
                                  /\ CurrentOf(i) = -20

-----------------------------------------------------------------------------
(* C29 *)

WbcSumWarning(f) ==
    /\ f.code = "WBC"
    /\ f.severity = "warning"
    /\ f.category = "cross_biomarker"

\* The percentage detection fired in the validate_exam call on a panel with
\* at least 3 of NEUT, LYMPH, MONO, EOS and no BASO.
PctOnThree ==
    /\ Validated
    /\ OfCategory(hist.flags, "wbc_percentage") # {}
    /\ Cardinality(PrimaryIn(PrePanel)) >= 3
    /\ ~HasCode(PrePanel, "BASO")

\* C29: when the percentage detection fires on a panel with at least 3 of
\* NEUT, LYMPH, MONO, EOS and no BASO, the flag list of the same validate_exam
\* call holds exactly one warning/cross_biomarker flag on WBC, the list still
\* holds it after apply_auto_corrections, and save_validation_flags stores it.
C29_SumFlagWithPct ==
    /\ [](PctOnThree =>
            /\ Cardinality({i \in DOMAIN hist.flags : WbcSumWarning(hist.flags[i])}) = 1
            /\ Cardinality({i \in DOMAIN call.flags : WbcSumWarning(call.flags[i])}) = 1)
    /\ [][(PctOnThree /\ SaveValidationFlags) =>
              \E i \in DOMAIN stored'[hist.exam] :
                  /\ WbcSumWarning(stored'[hist.exam][i].flag)
                  /\ stored'[hist.exam][i].flag.rid = Some(Row(PostPanel, "WBC").id)]_vars

\* The warning is stored for a panel of three percentages whose components,
\* as corrected, sum to WBC within the tolerance: the sum check finds nothing
\* on the panel as it is stored.
C29_Witness ==
    /\ PctOnThree /\ Applied
    /\ Cardinality(PrimaryIn(PrePanel)) = 3
    /\ stored[hist.exam] = StoredRows(call.flags)
    /\ \E i \in DOMAIN stored[hist.exam] : WbcSumWarning(stored[hist.exam][i].flag)
    /\ \A c \in PrimaryIn(PrePanel) : Row(PostPanel, c).value # Row(PrePanel, c).value
    /\ CheckWbcSum(PostPanel) = <<>>

-----------------------------------------------------------------------------
(* C30 *)

\* The exams of the user of hist.exam, and those of them validate_exam may
\* read: the exam itself and the completed ones.
OwnExams == {p \in DOMAIN exams : exams[p].user = exams[hist.exam].user}

Relevant == {hist.exam} \cup {p \in OwnExams : exams[p].status = "completed"}

\* The flag lists validate_exam can return for hist.exam on given tables.
Outcomes(rs, ex) ==
    {ValidateFlags(rs, ex, hist.exam, o) :
        o \in DateOrders(ex, PreviousCompleted(ex, hist.exam))}

\* The tables without the exams of other users and without the user's own
\* exams that are not completed.
PurgedExams == [p \in Relevant |-> exams[p]]

PurgedRows == {r \in hist.pre : r.exam \in Relevant}

\* The tables with the exams of other users changed: completed ones in
\* error and the others completed, dated as hist.exam's predecessor, every
\* measurement of theirs set to the value hist.exam holds for the code.
ChangedExams ==
    [p \in DOMAIN exams |->
        IF p \in OwnExams THEN exams[p]
        ELSE [exams[p] EXCEPT
                 !.status = IF @ = "completed" THEN "error" ELSE "completed",
                 !.exam_date = exams[hist.exam].exam_date - 1]]

ChangedRows ==
    {IF r.exam \in OwnExams THEN r
     ELSE [r EXCEPT !.value = ValueOrZero(PrePanel, r.code)] : r \in hist.pre}

\* C30: the flag lists validate_exam can return for an exam are the same on
\* the tables as they are, on the tables without the exams of other users,
\* and on the tables with the other users' exams changed in status, date and
\* measurements; the list returned is one of them, and no duplicate_exam or
\* historical flag refers to an exam of another user.
C30_SubjectIsolation ==
    Validated =>
        /\ hist.flags \in Outcomes(PurgedRows, PurgedExams)
        /\ Outcomes(hist.pre, exams) = Outcomes(PurgedRows, PurgedExams)
        /\ Outcomes(ChangedRows, ChangedExams) = Outcomes(PurgedRows, PurgedExams)
        /\ \A i \in OfCategory(hist.flags, "duplicate_exam")
                      \cup OfCategory(hist.flags, "historical") :
              hist.flags[i].ref \in OwnExams \ {hist.exam}

\* A completed exam of another user, dated earlier, holds the very panel of
\* the exam validated, as does one of the user's own exams: only the latter
\* is reported as a duplicate.
C30_Witness ==
    /\ Validated
    /\ \E p \in DOMAIN exams \ OwnExams :
          /\ exams[p].status = "completed"
          /\ exams[p].exam_date < exams[hist.exam].exam_date
          /\ {[code |-> r.code, value |-> r.value] : r \in PanelAt(p)}
                = {[code |-> r.code, value |-> r.value] : r \in PrePanel}
    /\ \E q \in OwnExams \ {hist.exam} :
          {hist.flags[i].ref : i \in OfCategory(hist.flags, "duplicate_exam")} = {q}

\* The only earlier completed exam with CREA 0.9 is another user's: CREA 3.0
\* gets no historical flag.
C30_WitnessHistorical ==
    /\ Validated
    /\ ValueOrZero(PrePanel, "CREA") = 30
    /\ Before = {}
    /\ \E p \in DOMAIN exams \ OwnExams :
          /\ exams[p].status = "completed"
          /\ exams[p].exam_date < exams[hist.exam].exam_date
          /\ ValueOrZero(PanelAt(p), "CREA") = 9
    /\ HistoricalFlags = {}

====
